---- MODULE Spec2Model ----
(***************************************************************************)
(* Model of the release-asset downloader: the webhook server of            *)
(* src/server.cjs (POST /github-webhook behind verifyGithubSignature) and  *)
(* the earlier entry points of the same repository that expose             *)
(* GET /update-release (src/unnamed/part_000, called "update", and the ES   *)
(* module of src/server.cjs:230-325, called "module").                     *)
(*                                                                         *)
(* Strings are sequences of code points, buffers are sequences of bytes.   *)
(* A request is handled up to its first await in one step (Node runs a     *)
(* handler without interruption between two awaits); every completion of   *)
(* an awaited call is a step of its own, so requests interleave exactly    *)
(* at the suspension points of the code.                                   *)
(***************************************************************************)
EXTENDS Integers, Sequences, FiniteSets, TLC

VARIABLES program, keyReadable, missing, startExit, secret, preScript, postScript, alive,
          pc, inp, verdict, ran, fault, resp, assets, assetId, total, written, file

vars == <<program, keyReadable, missing, startExit, secret, preScript, postScript, alive,
          pc, inp, verdict, ran, fault, resp, assets, assetId, total, written, file>>

config == <<program, keyReadable, missing, startExit, secret, preScript, postScript>>

(***************************************************************************)
(* Bounds of the model.                                                    *)
(***************************************************************************)
\* number of requests that may be in flight together
NumReqs == 2
\* longest request body, in bytes
MaxBodyLen == 2
\* largest download, in chunks of the response stream
MaxChunks == 1
\* hex digits of a SHA-1 digest (40 in the program, scaled down)
Sha1HexLen == 2
\* hex digits of a SHA-256 digest (64 in the program, scaled down)
Sha256HexLen == 3

Reqs == 1..NumReqs

(***************************************************************************)
(* Characters and buffers.                                                 *)
(***************************************************************************)
\* "sha256" and "sha1" as code points
AlgName(alg) == IF alg = "sha256" THEN <<115, 104, 97, 50, 53, 54>>
                                  ELSE <<115, 104, 97, 49>>

HexLen(alg) == IF alg = "sha256" THEN Sha256HexLen ELSE Sha1HexLen

\* one lower-case hex digit, as digest('hex') writes it
HexChar(d) == IF d < 10 THEN 48 + d ELSE 87 + d

RECURSIVE ToHex(_, _)
ToHex(n, len) == IF len = 0 THEN <<>>
                 ELSE Append(ToHex(n \div 16, len - 1), HexChar(n % 16))

RECURSIVE Pow16(_)
Pow16(k) == IF k = 0 THEN 1 ELSE 16 * Pow16(k - 1)

\* Buffer.from(string): the UTF-8 encoding; a code point of 128 or more
\* (below 2048) takes two bytes
RECURSIVE BufferFrom(_)
BufferFrom(s) ==
  IF s = <<>> THEN <<>>
  ELSE LET c == Head(s)
       IN  (IF c < 128 THEN <<c>> ELSE <<192 + (c \div 64), 128 + (c % 64)>>)
           \o BufferFrom(Tail(s))

\* the bytes a body is made of: "{", "}" and "x"
BodyBytes == {123, 125, 120}

ByteIdx(b) == CASE b = 123 -> 1 [] b = 125 -> 2 [] OTHER -> 3

RECURSIVE BodyCode(_)
BodyCode(body) ==
  IF body = <<>> THEN 0
  ELSE 3 * BodyCode(SubSeq(body, 1, Len(body) - 1)) + ByteIdx(body[Len(body)])

\* the secrets: the one the sender signs with, and another one
Secrets == {"s1", "s2"}
NoSecret == "undefined"
SecretIdx(s) == IF s = "s1" THEN 0 ELSE 1

\* crypto.createHmac(algorithm, secret).update(body).digest('hex'): a keyed
\* hash without collisions on the bodies and secrets of the model (the
\* multiplier is odd, so the map is one-to-one modulo a power of 16)
Hmac(alg, key, body) ==
  ToHex((37 * (2 * BodyCode(body) + SecretIdx(key)) + (IF alg = "sha256" THEN 11 ELSE 5))
          % Pow16(HexLen(alg)), HexLen(alg))

\* `${algorithm}=` + hmac.digest('hex')
Digest(alg, key, body) == AlgName(alg) \o <<61>> \o Hmac(alg, key, body)

\* crypto.timingSafeEqual(a, b): a RangeError when the byte lengths differ
TimingSafeEqual(a, b) ==
  IF Len(a) # Len(b) THEN "RangeError"
  ELSE IF a = b THEN "true" ELSE "false"

(***************************************************************************)
(* Requests.                                                               *)
(***************************************************************************)
\* a header that the request does not carry (req.get returns undefined)
Absent == [present |-> FALSE, val |-> <<>>]
Hdr(s) == [present |-> TRUE, val |-> s]

\* JavaScript truthiness of a header value: undefined and '' are falsy
Truthy(h) == h.present /\ h.val # <<>>

RECURSIVE SeqsUpTo(_, _)
SeqsUpTo(S, n) ==
  IF n = 0 THEN {<<>>}
  ELSE LET shorter == SeqsUpTo(S, n - 1)
       IN  shorter \cup {Append(s, b) : s \in shorter, b \in S}

Bodies == SeqsUpTo(BodyBytes, MaxBodyLen)

\* the only JSON document over the bytes of the model is "{}"; strict mode
\* of express.json takes objects and arrays only
JsonParses(body) == body = <<123, 125>>

\* express.json({verify}): a body whose content type is JSON is read, handed
\* to the verify callback (req.rawBody = buf) and then parsed, an empty one
\* parses to {}; a parse failure is a 400. Any other content type is passed
\* on untouched and the verify callback is not called.
ExpressJson(in) ==
  IF in.ctype = "application/json"
  THEN [raw |-> Hdr(in.body), err |-> in.body # <<>> /\ ~JsonParses(in.body)]
  ELSE [raw |-> Absent, err |-> FALSE]

\* verifyGithubSignature as it would be if a missing secret switched
\* authentication off instead of refusing the request
VerifySkippingWithoutSecret(sec, in, raw) ==
  IF sec = NoSecret THEN "next"
  ELSE LET use256    == Truthy(in.sig256)
           signature == IF use256 THEN in.sig256 ELSE in.sig1
           algorithm == IF use256 THEN "sha256" ELSE "sha1"
       IN  IF ~Truthy(signature) THEN "missing"
           ELSE IF ~raw.present THEN "TypeError"
           ELSE LET eq == TimingSafeEqual(BufferFrom(signature.val),
                                          BufferFrom(Digest(algorithm, sec, raw.val)))
                IN  IF eq = "RangeError" THEN "RangeError"
                    ELSE IF eq = "false" THEN "invalid" ELSE "next"

\* the verdict on one header: what verifyGithubSignature does once it has
\* chosen the header and the algorithm
CheckHeader(sec, signature, algorithm, raw) ==
  IF ~raw.present THEN "TypeError"
  ELSE LET eq == TimingSafeEqual(BufferFrom(signature.val),
                                 BufferFrom(Digest(algorithm, sec, raw.val)))
       IN  IF eq = "RangeError" THEN "RangeError"
           ELSE IF eq = "false" THEN "invalid" ELSE "next"

\* verifyGithubSignature as it would be if the legacy header were tried
\* whenever the strong one does not verify
VerifyFallingBack(sec, in, raw) ==
  IF sec = NoSecret THEN "config"
  ELSE LET strong == IF Truthy(in.sig256)
                     THEN CheckHeader(sec, in.sig256, "sha256", raw) ELSE "missing"
           legacy == IF Truthy(in.sig1)
                     THEN CheckHeader(sec, in.sig1, "sha1", raw) ELSE "missing"
       IN  IF strong = "next" \/ ~Truthy(in.sig1) THEN strong
           ELSE IF strong = "missing" THEN legacy
           ELSE IF legacy = "next" THEN "next" ELSE strong

\* verifyGithubSignature: "config" is the 500 for a missing secret,
\* "missing" and "invalid" are the two 401s, "TypeError" is hmac.update of
\* an undefined rawBody, "RangeError" is timingSafeEqual on buffers of
\* different lengths, "next" is next()
VerifyGithubSignature(sec, in, raw) ==
  IF sec = NoSecret THEN "config"
  ELSE LET use256    == Truthy(in.sig256)
           signature == IF use256 THEN in.sig256 ELSE in.sig1
           algorithm == IF use256 THEN "sha256" ELSE "sha1"
       IN  IF ~Truthy(signature) THEN "missing"
           ELSE IF ~raw.present THEN "TypeError"
           ELSE LET eq == TimingSafeEqual(BufferFrom(signature.val),
                                          BufferFrom(Digest(algorithm, sec, raw.val)))
                IN  IF eq = "RangeError" THEN "RangeError"
                    ELSE IF eq = "false" THEN "invalid" ELSE "next"

NoInput == [method |-> "", path |-> "", ctype |-> "", body |-> <<>>,
            sig256 |-> Absent, sig1 |-> Absent]

Request(m, p, c, b, h256, h1) ==
  [method |-> m, path |-> p, ctype |-> c, body |-> b, sig256 |-> h256, sig1 |-> h1]

IsWebhookRoute(in) == in.method = "POST" /\ in.path = "/github-webhook"
IsUpdateRoute(in)  == in.method = "GET" /\ in.path = "/update-release"

\* the requests of the concurrent specification: a signed JSON delivery, a
\* signed form-encoded delivery, an unsigned delivery and a GET of
\* /update-release
Inputs ==
  { Request("POST", "/github-webhook", "application/json", <<123, 125>>,
            Hdr(Digest("sha256", "s1", <<123, 125>>)), Absent),
    Request("POST", "/github-webhook", "application/x-www-form-urlencoded", <<120>>,
            Hdr(Digest("sha256", "s1", <<120>>)), Absent),
    Request("POST", "/github-webhook", "application/json", <<123, 125>>, Absent, Absent),
    Request("GET", "/update-release", "application/json", <<>>, Absent, Absent) }

\* the strings that differ from s in exactly one position
MutChars == {48, 102, 233}
Mutations(s) == {[s EXCEPT ![i] = c] : i \in 1..Len(s), c \in MutChars} \ {s}
ByteMutations(b) == {[b EXCEPT ![i] = c] : i \in 1..Len(b), c \in BodyBytes} \ {b}

\* the values tried for a signature header sent with a body: none, the
\* empty string, the digest of the body, of a body one byte away, under
\* another secret or under the other algorithm, and the digest with one
\* character changed, dropped or added
HeaderValues(alg, body) ==
  LET good == Digest(alg, "s1", body)
      other == IF alg = "sha256" THEN "sha1" ELSE "sha256"
  IN  {Absent, Hdr(<<>>)} \cup
      { Hdr(s) : s \in {good, Digest(alg, "s2", body), Digest(other, "s1", body),
                        SubSeq(good, 1, Len(good) - 1), Append(good, 48)}
                       \cup {Digest(alg, "s1", b) : b \in ByteMutations(body)}
                       \cup Mutations(good) }

\* the requests of the verifier specification
VerifierInputs ==
  { Request("POST", "/github-webhook", c, b, h256, h1) :
      c \in {"application/json", "application/x-www-form-urlencoded"},
      b \in Bodies,
      h256 \in {Absent, Hdr(<<>>)}, h1 \in {Absent} } \cup
  UNION { UNION { { Request("POST", "/github-webhook", c, b, h256, h1) :
                      h256 \in HeaderValues("sha256", b),
                      h1 \in {Absent, Hdr(Digest("sha1", "s1", b))} } \cup
                  { Request("POST", "/github-webhook", c, b, h256, h1) :
                      h256 \in {Absent, Hdr(<<>>)},
                      h1 \in HeaderValues("sha1", b) } :
                  b \in Bodies } :
          c \in {"application/json", "application/x-www-form-urlencoded"} } \cup
  { Request("GET", "/update-release", "application/json", <<>>, Absent, Absent) }

(***************************************************************************)
(* Releases.                                                               *)
(***************************************************************************)
\* process.env.ASSET_NAME
assetName == "b.zip"

MaxAssets == 2
AssetNames == {"a.zip", "b.zip", "B.zip"}

\* release.assets: the asset at position i has id i
AssetLists ==
  UNION { { [i \in 1..n |-> [name |-> f[i], id |-> i]] : f \in [1..n -> AssetNames] } :
          n \in 0..MaxAssets }

\* release.assets.find(asset => asset.name === assetName): the first asset
\* of that name, 0 standing for undefined
RECURSIVE FindFrom(_, _, _)
FindFrom(list, name, i) ==
  IF i > Len(list) THEN 0
  ELSE IF list[i].name = name THEN list[i].id
  ELSE FindFrom(list, name, i + 1)

\* a find that compares the names without regard to case
Lower(name) == IF name = "B.zip" THEN "b.zip" ELSE name

RECURSIVE FindFromIgnoringCase(_, _, _)
FindFromIgnoringCase(list, name, i) ==
  IF i > Len(list) THEN 0
  ELSE IF Lower(list[i].name) = Lower(name) THEN list[i].id
  ELSE FindFromIgnoringCase(list, name, i + 1)

FindIgnoringCase(list, name) == FindFromIgnoringCase(list, name, 1)

Find(list, name) == FindFrom(list, name, 1)

(***************************************************************************)
(* The server.                                                             *)
(***************************************************************************)
\* the target of find: process.env.ASSET_NAME, undefined when it is not set
TargetName == IF missing = "assetName" THEN "undefined" ELSE assetName

\* startup, as the exit code of the process, 0 standing for a process that
\* listens. The webhook server exits with 1 when the key file cannot be
\* read or a required value is missing; so does the "update" program (an
\* unreadable key file is a rejection nobody handles); the "module" program
\* checks nothing itself: an unreadable key file ends it, and so does a
\* missing application id (createAppAuth throws in the constructor), but a
\* missing owner, repository or asset name does not.
Startup(prog, readable, miss) ==
  IF ~readable THEN 1
  ELSE IF prog \in {"webhook", "update"} THEN (IF miss # "none" THEN 1 ELSE 0)
  ELSE IF miss = "appId" THEN 1 ELSE 0

Init ==
  /\ program \in {"webhook", "update", "module"}
  /\ keyReadable \in BOOLEAN
  /\ missing \in {"none", "appId", "assetName"}
  /\ startExit = Startup(program, keyReadable, missing)
  /\ secret \in {NoSecret, "s1"}
  /\ preScript \in BOOLEAN
  /\ postScript \in BOOLEAN
  \* the /update-release programs read neither the secret nor the scripts
  /\ program # "webhook" => secret = NoSecret /\ ~preScript /\ ~postScript
  /\ alive = (startExit = 0)
  /\ pc = [r \in Reqs |-> "idle"]
  /\ inp = [r \in Reqs |-> NoInput]
  /\ verdict = [r \in Reqs |-> "none"]
  /\ ran = [r \in Reqs |-> <<>>]
  /\ fault = [r \in Reqs |-> {}]
  /\ resp = [r \in Reqs |-> <<>>]
  /\ assets = [r \in Reqs |-> <<>>]
  /\ assetId = [r \in Reqs |-> 0]
  /\ total = [r \in Reqs |-> 0]
  /\ written = [r \in Reqs |-> 0]
  /\ file \in {[exists |-> FALSE, len |-> 0], [exists |-> TRUE, len |-> 1]}

\* res.status(status).send(msg): the request is answered
Respond(r, status, msg) ==
  /\ resp' = [resp EXCEPT ![r] = Append(@, [status |-> status, msg |-> msg])]
  /\ pc' = [pc EXCEPT ![r] = "done"]

\* a step of the pipeline is started and the handler awaits it
Start(r, step) ==
  /\ ran' = [ran EXCEPT ![r] = Append(@, step)]
  /\ pc' = [pc EXCEPT ![r] = step]
  /\ resp' = resp

\* the catch block of the handler: res.status(500).send(`Error: ...`)
Catch(r, f, msg) ==
  /\ fault' = [fault EXCEPT ![r] = @ \cup {f}]
  /\ Respond(r, 500, msg)

\* the handler of POST /github-webhook up to its first await
HandlerEntry(r) ==
  IF preScript THEN Start(r, "prehook") ELSE Start(r, "token")

\* a request arrives at the webhook server: express.json, the router,
\* verifyGithubSignature and the handler up to its first await (requests
\* are numbered in the order of their arrival)
WebhookReceive(r, ins) ==
  /\ alive /\ program = "webhook" /\ pc[r] = "idle"
  /\ \A q \in 1..(r - 1) : pc[q] # "idle"
  /\ \E in \in ins :
       /\ inp' = [inp EXCEPT ![r] = in]
       /\ LET parsed == ExpressJson(in)
              v == VerifyGithubSignature(secret, in, parsed.raw)
          IN  IF parsed.err
              THEN /\ Respond(r, 400, "body parse error")
                   /\ UNCHANGED <<verdict, ran>>
              ELSE IF ~IsWebhookRoute(in)
              THEN /\ Respond(r, 404, "not found")
                   /\ UNCHANGED <<verdict, ran>>
              ELSE /\ verdict' = [verdict EXCEPT ![r] = v]
                   /\ CASE v = "next"    -> HandlerEntry(r)
                        [] v = "config"  -> Respond(r, 500, "missing webhook secret") /\ ran' = ran
                        [] v = "missing" -> Respond(r, 401, "signature missing") /\ ran' = ran
                        [] v = "invalid" -> Respond(r, 401, "invalid signature") /\ ran' = ran
                        [] OTHER         -> Respond(r, 500, v) /\ ran' = ran
  /\ UNCHANGED <<config, alive, fault, assets, assetId, total, written, file>>

\* a request arrives at a server of /update-release: the router and the
\* handler up to its first await
UpdateReceive(r, ins) ==
  /\ alive /\ program \in {"update", "module"} /\ pc[r] = "idle"
  /\ \A q \in 1..(r - 1) : pc[q] # "idle"
  /\ \E in \in ins :
       /\ inp' = [inp EXCEPT ![r] = in]
       /\ IF IsUpdateRoute(in)
          THEN Start(r, "token")
          ELSE Respond(r, 404, "not found") /\ ran' = ran
  /\ UNCHANGED <<config, alive, verdict, fault, assets, assetId, total, written, file>>

\* runScript(preScript) settles as if a failure were logged and ignored
PreHookIgnoringFailure(r) ==
  /\ alive /\ pc[r] = "prehook"
  /\ \E ok \in BOOLEAN :
       /\ fault' = [fault EXCEPT ![r] = IF ok THEN @ ELSE @ \cup {"prehook"}]
       /\ Start(r, "token")
  /\ UNCHANGED <<config, alive, inp, verdict, assets, assetId, total, written, file>>

\* runScript(preScript) settles: on a failure the handler answers 500 and
\* returns, otherwise it asks for the installation token
PreHookDone(r) ==
  /\ alive /\ pc[r] = "prehook"
  /\ \E ok \in BOOLEAN :
       IF ok
       THEN Start(r, "token") /\ fault' = fault
       ELSE /\ fault' = [fault EXCEPT ![r] = @ \cup {"prehook"}]
            /\ Respond(r, 500, "Pre-script execution failed")
            /\ ran' = ran
  /\ UNCHANGED <<config, alive, inp, verdict, assets, assetId, total, written, file>>

\* octokit.auth settles as if the handler did not look at the token before
\* it goes on
TokenDoneWithoutCheck(r) ==
  /\ alive /\ pc[r] = "token"
  /\ \E out \in {"token", "none", "throws"} :
       CASE out = "token"  -> Start(r, "release") /\ fault' = fault
         [] out = "none"   -> /\ Start(r, "release")
                              /\ fault' = [fault EXCEPT ![r] = @ \cup {"token"}]
         [] out = "throws" -> Catch(r, "token", "token request failed") /\ ran' = ran
  /\ UNCHANGED <<config, alive, inp, verdict, assets, assetId, total, written, file>>

\* octokit.auth settles as if a request that threw were made once more
TokenDoneRetrying(r) ==
  /\ alive /\ pc[r] = "token"
  /\ \E out \in {"token", "none", "throws"} :
       CASE out = "token"  -> Start(r, "release") /\ fault' = fault
         [] out = "none"   -> Catch(r, "token", "Installation token not received") /\ ran' = ran
         [] out = "throws" -> IF "token" \in fault[r]
                              THEN Catch(r, "token", "token request failed") /\ ran' = ran
                              ELSE /\ Start(r, "token")
                                   /\ fault' = [fault EXCEPT ![r] = @ \cup {"token"}]
  /\ UNCHANGED <<config, alive, inp, verdict, assets, assetId, total, written, file>>

\* octokit.auth settles: with a token, without one, or by throwing
TokenDone(r) ==
  /\ alive /\ pc[r] = "token"
  /\ \E out \in {"token", "none", "throws"} :
       CASE out = "token"  -> Start(r, "release") /\ fault' = fault
         [] out = "none"   -> Catch(r, "token", "Installation token not received") /\ ran' = ran
         [] out = "throws" -> Catch(r, "token", "token request failed") /\ ran' = ran
  /\ UNCHANGED <<config, alive, inp, verdict, assets, assetId, total, written, file>>

\* getLatestRelease settles as if the emptiness of release.assets were not
\* checked before the download URL is built and fetched
ReleaseDoneWithoutAssetsCheck(r, lists) ==
  /\ alive /\ pc[r] = "release"
  /\ \/ /\ Catch(r, "norelease", "release request failed")
        /\ UNCHANGED <<ran, assets, assetId>>
     \/ \E list \in lists :
          LET id == Find(list, TargetName)
          IN  /\ assets' = [assets EXCEPT ![r] = list]
              /\ IF Len(list) > 0 /\ id = 0
                 THEN /\ Catch(r, "noasset", "Asset not found in the release assets")
                      /\ UNCHANGED <<ran, assetId>>
                 ELSE /\ assetId' = [assetId EXCEPT ![r] = id]
                      /\ Start(r, "fetch")
                      /\ fault' = [fault EXCEPT ![r] =
                                     IF Len(list) = 0 THEN @ \cup {"noassets"} ELSE @]
  /\ UNCHANGED <<config, alive, inp, verdict, total, written, file>>

\* octokit.repos.getLatestRelease settles: it throws (no release), or the
\* release (its assets one of lists) has no assets, or none of the wanted
\* name, or the asset is found and fetch is called on the URL of its id
ReleaseDone(r, lists) ==
  /\ alive /\ pc[r] = "release"
  /\ \/ /\ Catch(r, "norelease", "release request failed")
        /\ UNCHANGED <<ran, assets, assetId>>
     \/ \E list \in lists :
          LET id == Find(list, TargetName)
          IN  /\ assets' = [assets EXCEPT ![r] = list]
              /\ IF ~(Len(list) > 0)
                 THEN /\ Catch(r, "noassets", "No assets attached to the latest release")
                      /\ UNCHANGED <<ran, assetId>>
                 ELSE IF id = 0
                 THEN /\ Catch(r, "noasset", "Asset not found in the release assets")
                      /\ UNCHANGED <<ran, assetId>>
                 ELSE /\ assetId' = [assetId EXCEPT ![r] = id]
                      /\ Start(r, "fetch")
                      /\ fault' = fault
  /\ UNCHANGED <<config, alive, inp, verdict, total, written, file>>

\* fetch settles as if the output file were opened before response.ok is
\* looked at
FetchDoneOpeningFirst(r, sizes) ==
  /\ alive /\ pc[r] = "fetch"
  /\ \/ /\ Catch(r, "fetch", "fetch failed")
        /\ UNCHANGED <<ran, total, file>>
     \/ /\ fault' = [fault EXCEPT ![r] = @ \cup {"status"}]
        /\ file' = [exists |-> TRUE, len |-> 0]
        /\ ran' = [ran EXCEPT ![r] = Append(@, "write")]
        /\ pc' = [pc EXCEPT ![r] = "text"]
        /\ UNCHANGED <<resp, total>>
     \/ \E n \in sizes :
          /\ total' = [total EXCEPT ![r] = n]
          /\ file' = [exists |-> TRUE, len |-> 0]
          /\ Start(r, "write")
          /\ fault' = fault
  /\ UNCHANGED <<config, alive, inp, verdict, assets, assetId, written>>

\* fetch settles: it throws, or the response is not ok and the handler
\* awaits response.text(), or the response is ok and the handler opens the
\* output file (truncating it) and pipes the body of n chunks into it, n
\* being one of sizes
FetchDone(r, sizes) ==
  /\ alive /\ pc[r] = "fetch"
  /\ \/ /\ Catch(r, "fetch", "fetch failed")
        /\ UNCHANGED <<ran, total, file>>
     \/ /\ fault' = [fault EXCEPT ![r] = @ \cup {"status"}]
        /\ pc' = [pc EXCEPT ![r] = "text"]
        /\ UNCHANGED <<ran, resp, total, file>>
     \/ \E n \in sizes :
          /\ total' = [total EXCEPT ![r] = n]
          /\ file' = [exists |-> TRUE, len |-> 0]
          /\ Start(r, "write")
          /\ fault' = fault
  /\ UNCHANGED <<config, alive, inp, verdict, assets, assetId, written>>

\* response.text() settles and the handler throws the download error
TextDone(r) ==
  /\ alive /\ pc[r] = "text"
  /\ Catch(r, "status", "Failed to download release asset")
  /\ UNCHANGED <<config, alive, inp, verdict, ran, assets, assetId, total, written, file>>

\* pipe copies one chunk of the response body to the file, at the position
\* of this request's own stream
WriteChunk(r) ==
  /\ alive /\ pc[r] = "write" /\ written[r] < total[r]
  /\ written' = [written EXCEPT ![r] = @ + 1]
  /\ file' = [file EXCEPT !.len = IF written[r] + 1 > @ THEN written[r] + 1 ELSE @]
  /\ UNCHANGED <<config, alive, pc, inp, verdict, ran, fault, resp, assets, assetId, total>>

\* "finish" of the file stream: the post-script is run if there is one,
\* otherwise the success response is sent
WriteFinish(r) ==
  /\ alive /\ pc[r] = "write" /\ written[r] = total[r]
  /\ IF program = "webhook" /\ postScript
     THEN Start(r, "posthook")
     ELSE Respond(r, 200, "downloaded") /\ ran' = ran
  /\ UNCHANGED <<config, alive, inp, verdict, fault, assets, assetId, total, written, file>>

\* "error" of the stream that is read: the promise is rejected
StreamReadError(r) ==
  /\ alive /\ pc[r] = "write" /\ written[r] < total[r]
  /\ Catch(r, "read", "read error")
  /\ UNCHANGED <<config, alive, inp, verdict, ran, assets, assetId, total, written, file>>

\* "error" of the file stream as if no handler listened for it: the event
\* without a listener ends the process
FileWriteErrorUnheard(r) ==
  /\ alive /\ pc[r] = "write"
  /\ alive' = FALSE
  /\ fault' = [fault EXCEPT ![r] = @ \cup {"write"}]
  /\ UNCHANGED <<pc, resp>>
  /\ UNCHANGED <<config, inp, verdict, ran, assets, assetId, total, written, file>>

\* "error" of the file stream: the webhook handler listens for it and
\* rejects the promise; the /update-release handlers do not listen, and an
\* "error" event without a listener ends the process
FileWriteError(r) ==
  /\ alive /\ pc[r] = "write"
  /\ IF program = "webhook"
     THEN Catch(r, "write", "write error") /\ alive' = alive
     ELSE /\ alive' = FALSE
          /\ fault' = [fault EXCEPT ![r] = @ \cup {"write"}]
          /\ UNCHANGED <<pc, resp>>
  /\ UNCHANGED <<config, inp, verdict, ran, assets, assetId, total, written, file>>

\* runScript(postScript) settles as if its failure were thrown on
PostHookFailureFatal(r) ==
  /\ alive /\ pc[r] = "posthook"
  /\ \E ok \in BOOLEAN :
       IF ok
       THEN Respond(r, 200, "downloaded") /\ fault' = fault
       ELSE Catch(r, "posthook", "Script execution failed")
  /\ UNCHANGED <<config, alive, inp, verdict, ran, assets, assetId, total, written, file>>

\* runScript(postScript) settles: a failure is logged, and the success
\* response is sent either way
PostHookDone(r) ==
  /\ alive /\ pc[r] = "posthook"
  /\ \E ok \in BOOLEAN :
       /\ fault' = [fault EXCEPT ![r] = IF ok THEN @ ELSE @ \cup {"posthook"}]
       /\ Respond(r, 200, "downloaded")
  /\ UNCHANGED <<config, alive, inp, verdict, ran, assets, assetId, total, written, file>>

\* a completion of an awaited call of request r
Settle(r, lists, sizes) ==
  \/ PreHookDone(r)
  \/ TokenDone(r)
  \/ ReleaseDone(r, lists)
  \/ FetchDone(r, sizes)
  \/ TextDone(r)
  \/ WriteChunk(r)
  \/ WriteFinish(r)
  \/ StreamReadError(r)
  \/ FileWriteError(r)
  \/ PostHookDone(r)

\* the releases and download sizes of the concurrent specification: no
\* assets, no asset of the wanted name, the wanted asset; an empty body and
\* a body of one chunk
SomeAssetLists ==
  { <<>>,
    <<[name |-> "a.zip", id |-> 1]>>,
    <<[name |-> "a.zip", id |-> 1], [name |-> "b.zip", id |-> 2]>> }

SomeSizes == {0, 1}

\* the concurrent specification: NumReqs requests that interleave at every
\* suspension point
Next ==
  \E r \in Reqs :
    \/ WebhookReceive(r, Inputs)
    \/ UpdateReceive(r, Inputs)
    \/ Settle(r, SomeAssetLists, SomeSizes)

Spec == Init /\ [][Next]_vars

\* the sequential specification: one request, drawn from the signature
\* cases of VerifierInputs, with every release and download size of the
\* bounds
NextSingle ==
  \/ WebhookReceive(1, VerifierInputs)
  \/ UpdateReceive(1, VerifierInputs)
  \/ Settle(1, AssetLists, 0..MaxChunks)

SpecSingle == Init /\ [][NextSingle]_vars

\* the concurrent specification in which every awaited call (hook process,
\* token exchange, release lookup, fetch, response text, file stream) of
\* every request eventually completes or fails
SpecFair ==
  Spec /\ \A r \in Reqs : WF_vars(Settle(r, SomeAssetLists, SomeSizes))

(***************************************************************************)
(* Vocabulary of the properties.                                           *)
(***************************************************************************)
Range(q) == {q[i] : i \in 1..Len(q)}

Received(r) == pc[r] # "idle"

\* the request is at a suspension point of the download pipeline
InPipeline(r) ==
  pc[r] \in {"prehook", "token", "release", "fetch", "text", "write", "posthook"}

\* the request got exactly one response, of this status and message
AnsweredWith(r, status, msg) ==
  pc[r] = "done" /\ resp[r] = <<[status |-> status, msg |-> msg]>>

\* the request came to verifyGithubSignature
CameToVerifier(r) == verdict[r] # "none"

\* the header the verifier reads and the algorithm it stands for
SelectedHeader(in) == IF Truthy(in.sig256) THEN in.sig256 ELSE in.sig1
SelectedAlg(in) == IF Truthy(in.sig256) THEN "sha256" ELSE "sha1"

\* the header is the algorithm-prefixed HMAC of the body that was sent,
\* under the configured secret
CorrectlySigned(in) ==
  /\ secret # NoSecret
  /\ Truthy(SelectedHeader(in))
  /\ SelectedHeader(in).val = Digest(SelectedAlg(in), secret, in.body)

\* the request is a correctly signed one with one byte of its header or of
\* its body changed
OneByteOff(in) ==
  /\ secret # NoSecret
  /\ Truthy(SelectedHeader(in))
  /\ \/ SelectedHeader(in).val \in Mutations(Digest(SelectedAlg(in), secret, in.body))
     \/ \E b \in ByteMutations(in.body) :
          SelectedHeader(in).val = Digest(SelectedAlg(in), secret, b)

(***************************************************************************)
(* Properties.                                                             *)
(***************************************************************************)
\* C1: at most one request is inside the download/save/hook sequence at
\* any time; a request that arrives meanwhile is turned away as busy.
C1_AtMostOneInPipeline ==
  Cardinality({r \in Reqs : InPipeline(r)}) <= 1

\* C2: no step of the pipeline runs for a request whose signature was not
\* verified successfully first.
C2_StepsOnlyAfterVerification ==
  \A r \in Reqs : ran[r] # <<>> => verdict[r] = "next"

\* C3: the verifier accepts every correctly signed payload and rejects
\* every payload that is one byte of body or header away from one.
C3_AcceptsSignedRejectsMutated ==
  \A r \in Reqs :
    CameToVerifier(r) /\ secret # NoSecret =>
      /\ CorrectlySigned(inp[r]) => verdict[r] = "next"
      /\ OneByteOff(inp[r]) => verdict[r] # "next"

\* C4: a request whose signature header is absent, or differs from the
\* digest computed over its raw body in content or in length, is answered
\* unauthorized (401) and never with a server error or a success.
C4_FailedVerificationIsUnauthorized ==
  \A r \in Reqs :
    ( /\ CameToVerifier(r) /\ secret # NoSecret
      /\ ExpressJson(inp[r]).raw.present
      /\ ~CorrectlySigned(inp[r]) )
    => /\ pc[r] = "done"
       /\ Len(resp[r]) = 1
       /\ resp[r][1].status = 401

\* C5 as stated: without a configured secret every request to the webhook
\* path proceeds to the download pipeline.
C5_NoSecretSkipsVerification ==
  \A r \in Reqs :
    program = "webhook" /\ secret = NoSecret /\ Received(r) /\ IsWebhookRoute(inp[r])
    => ran[r] # <<>>

\* C5 as amended: without a configured secret no request to the webhook
\* path of the webhook server proceeds to the pipeline, with or without a
\* signature header; the verifier answers it 500 (express.json answers 400
\* before that when the JSON body does not parse).
C5_NoSecretRefusesAll ==
  \A r \in Reqs :
    program = "webhook" /\ secret = NoSecret /\ Received(r) /\ IsWebhookRoute(inp[r])
    => /\ ran[r] = <<>>
       /\ IF ExpressJson(inp[r]).err
          THEN AnsweredWith(r, 400, "body parse error")
          ELSE AnsweredWith(r, 500, "missing webhook secret")

C5_Witness ==
  \E r \in Reqs :
    /\ program = "webhook" /\ secret = NoSecret /\ IsWebhookRoute(inp[r])
    /\ Truthy(inp[r].sig256)
    /\ inp[r].sig256.val = Digest("sha256", "s1", inp[r].body)
    /\ AnsweredWith(r, 500, "missing webhook secret")

\* C6: a correctly signed request to the webhook path is accepted whatever
\* its body and content type are, and the verifier always has the raw bytes
\* of the body.
C6_SignedAcceptedWhateverBody ==
  \A r \in Reqs :
    ( /\ program = "webhook" /\ Received(r) /\ IsWebhookRoute(inp[r])
      /\ CorrectlySigned(inp[r]) )
    => /\ ExpressJson(inp[r]).raw = Hdr(inp[r].body)
       /\ verdict[r] = "next"

\* C7: when the pre-hook fails, no later step (token, release lookup,
\* fetch, file write) is run for that request and its response is the 500
\* that reports the hook failure.
C7_PreHookFailureAbortsDownload ==
  \A r \in Reqs :
    "prehook" \in fault[r]
    => /\ ran[r] = <<"prehook">>
       /\ AnsweredWith(r, 500, "Pre-script execution failed")

C7_Witness ==
  \E r \in Reqs : preScript /\ "prehook" \in fault[r] /\ pc[r] = "done"

\* C8: when the download has succeeded and the post-hook fails, the
\* response is still the success response.
C8_PostHookFailureKeepsSuccess ==
  \A r \in Reqs :
    "posthook" \in fault[r] => AnsweredWith(r, 200, "downloaded")

C8_Witness ==
  \E r \in Reqs :
    /\ postScript /\ "posthook" \in fault[r]
    /\ "write" \in Range(ran[r]) /\ written[r] = total[r]
    /\ pc[r] = "done"

\* C9: a fault at any step is answered with an error response and never
\* ends the process.
C9_FaultsAnsweredWithoutCrash ==
  /\ alive
  /\ \A r \in Reqs :
       pc[r] = "done" /\ fault[r] \ {"posthook"} # {}
       => Len(resp[r]) = 1 /\ resp[r][1].status = 500

\* C10: when the latest release has no assets, or there is no release, the
\* request fails with that error before any download: no fetch and no file
\* write is done for it.
C10_NoAssetsFailsBeforeDownload ==
  \A r \in Reqs :
    fault[r] \cap {"noassets", "norelease"} # {}
    => /\ "fetch" \notin Range(ran[r])
       /\ "write" \notin Range(ran[r])
       /\ IF "noassets" \in fault[r]
          THEN AnsweredWith(r, 500, "No assets attached to the latest release")
          ELSE AnsweredWith(r, 500, "release request failed")

C10_Witness ==
  \E r \in Reqs :
    /\ "noassets" \in fault[r] /\ pc[r] = "done"
    /\ ran[r][Len(ran[r])] = "release"

C12_BadStatusLeavesFile ==
  /\ [](\A r \in Reqs :
          "status" \in fault[r]
          => /\ pc[r] \in {"text", "done"}
             /\ "write" \notin Range(ran[r])
             /\ written[r] = 0
             /\ pc[r] = "done"
                => AnsweredWith(r, 500, "Failed to download release asset"))
  /\ [][\A r \in Reqs :
          "status" \in fault'[r] /\ pc[r] \in {"fetch", "text"} /\ pc'[r] # pc[r]
          => file' = file]_vars

C12_Witness ==
  \E r \in Reqs :
    /\ "status" \in fault[r] /\ pc[r] = "done"
    /\ file = [exists |-> TRUE, len |-> 1]

\* C13: a request that is not a POST to the webhook path is answered
\* not found and runs no step of the pipeline.
C13_OnlyWebhookRouteReachesPipeline ==
  \A r \in Reqs :
    Received(r) /\ ~IsWebhookRoute(inp[r])
    => ran[r] = <<>> /\ AnsweredWith(r, 404, "not found")

\* C14: a process whose required configuration is incomplete (a required
\* value is missing, or the key file cannot be read) ends at startup with a
\* non-zero exit code before it listens: it never serves a request.
C14_IncompleteConfigNeverServes ==
  (~keyReadable \/ missing # "none")
  => \A r \in Reqs : startExit # 0 /\ ~Received(r)

\* the request arrives in this step
Arrives(r) == pc[r] = "idle" /\ pc'[r] # "idle"

\* a download is in flight for another request than r
OtherInFlight(r) == \E q \in Reqs \ {r} : InPipeline(q)

\* the request is one that the server lets into the pipeline when nothing
\* else is going on
Eligible(in) ==
  IF program = "webhook"
  THEN /\ IsWebhookRoute(in)
       /\ ~ExpressJson(in).err
       /\ VerifyGithubSignature(secret, in, ExpressJson(in).raw) = "next"
  ELSE IsUpdateRoute(in)

\* C15: a request that arrives while a job is in flight is answered at
\* once and no step of the pipeline, the pre-hook included, is run for it.
C15_ArrivalWhileBusyRunsNothing ==
  [][\A r \in Reqs :
       Arrives(r) /\ OtherInFlight(r) => pc'[r] = "done" /\ ran'[r] = <<>>]_vars

\* C16: the success response reports the number of bytes written, which is
\* the number of bytes copied from the response body to the file.
C16_SuccessReportsBytes ==
  \A r \in Reqs :
    pc[r] = "done" /\ resp[r] # <<>> /\ resp[r][1].status = 200
    => /\ "bytes" \in DOMAIN resp[r][1]
       /\ resp[r][1].bytes = written[r]

\* C17: the server is busy exactly while a download is in flight: a request
\* that would otherwise be let in is turned away if and only if another
\* request is in the pipeline when it arrives (so it is let in again once
\* that request has been answered, on whatever path).
C17_BusyExactlyWhileInFlight ==
  [][\A r \in Reqs :
       Arrives(r) /\ Eligible(inp'[r]) => (ran'[r] = <<>> <=> OtherInFlight(r))]_vars

\* the steps in the order of the handler, and the step a fault belongs to
Order == <<"prehook", "token", "release", "fetch", "write", "posthook">>

StepOf(f) ==
  CASE f \in {"norelease", "noassets", "noasset"} -> "release"
    [] f \in {"fetch", "status"} -> "fetch"
    [] f \in {"read", "write"} -> "write"
    [] OTHER -> f

\* C18: the steps of a request run in the order pre-hook, token, release
\* lookup (with the asset selection), fetch, file write, post-hook, none
\* left out but the hooks, and a step starts only after every earlier one
\* succeeded: the step that failed is the last one started, the post-hook
\* runs only after the whole body was written, nothing is fetched without
\* a token.
C18_FixedOrderFailStop ==
  \A r \in Reqs :
    /\ \E first \in 1..2, n \in 0..Len(Order) :
         ran[r] = SubSeq(Order, first, first + n - 1)
    /\ \A f \in fault[r] \ {"posthook"} :
         ran[r] # <<>> /\ ran[r][Len(ran[r])] = StepOf(f)
    /\ "posthook" \in Range(ran[r])
       => written[r] = total[r] /\ fault[r] \subseteq {"posthook"}

C18_Witness ==
  \E r \in Reqs : ran[r] = Order /\ pc[r] = "done" /\ total[r] > 0

\* C19: nothing is retried: no step is started twice for a request, a
\* request has at most one fault before its post-hook, and after that
\* fault no step is started for it any more.
C19_NoRetry ==
  /\ [](\A r \in Reqs :
          /\ \A i, j \in 1..Len(ran[r]) : i # j => ran[r][i] # ran[r][j]
          /\ Cardinality(fault[r] \ {"posthook"}) <= 1)
  /\ [][\A r \in Reqs :
          fault[r] \ {"posthook"} # {} => ran'[r] = ran[r] /\ fault'[r] = fault[r]]_vars

C19_Witness ==
  \E r \in Reqs :
    /\ "token" \in fault[r] /\ pc[r] = "done"
    /\ resp[r] = <<[status |-> 500, msg |-> "token request failed"]>>

C21_ExactlyOneResponse ==
  /\ [](\A r \in Reqs : IsWebhookRoute(inp[r]) => Len(resp[r]) <= 1)
  /\ [][\A r \in Reqs : pc[r] = "done" => pc'[r] = "done" /\ resp'[r] = resp[r]]_vars
  /\ \A r \in Reqs :
       (Received(r) /\ IsWebhookRoute(inp[r]))
         ~> (pc[r] = "done" /\ Len(resp[r]) = 1)

\* a verified request whose download failed on a write fault of the output
\* file, and one whose post-script failed, each answered once
C21_Witness ==
  /\ program = "webhook"
  /\ \E r \in Reqs :
       /\ IsWebhookRoute(inp[r]) /\ verdict[r] = "next"
       /\ "write" \in fault[r]
       /\ pc[r] = "done" /\ Len(resp[r]) = 1 /\ resp[r][1].status = 500
  /\ \E r \in Reqs :
       /\ IsWebhookRoute(inp[r]) /\ verdict[r] = "next"
       /\ "posthook" \in fault[r]
       /\ pc[r] = "done" /\ Len(resp[r]) = 1 /\ resp[r][1].status = 200

====
